---- MODULE Spec2Model ----
(***************************************************************************)
(* Video processing pipeline of mmorana4/video-education-system.            *)
(*                                                                         *)
(* One Video row, its LogProcesamiento entries, the Celery tasks of        *)
(* apps/videos/tasks/tasks.py and the HTTP handlers of                     *)
(* apps/videos/views/video_views.py that enqueue them.  A task execution   *)
(* is two steps, WorkerStart (the code up to the external operation) and   *)
(* WorkerFinish (the operation's outcome and everything after it), so that *)
(* other handlers and tasks interleave with the external operation.        *)
(***************************************************************************)
EXTENDS Integers, Sequences, FiniteSets, TLC

\* ----------------------------------------------------------------- bounds
MaxRequests == 2      \* POST procesar / reanalizar / resegmentar requests
MaxFailures == 4      \* adapter failures the environment produces
MaxSegmentos == 3     \* segments the language model returns in one answer

\* ----------------------------------------------------------------- values
\* The primary key of the Video row, and the values tasks return or receive.
VID == "video_id"
TEMP_PATH == "temp_video_path"
UPLOAD_PATH == "ruta_video_completo.path"
AUDIO_PATH == "audio_path"
THUMB_PATH == "thumbnail_path"
MEDIA_PATH == "final_path"
TRANS_RESULT == "transcripcion_result"
ANAL_RESULT == "analisis_result"
SEG_RESULT == "segmentacion_result"
GROUP_RESULT == "group_results"
NONE == "None"

\* settings.ANALYSIS_MIN_SEGMENTS and settings.ANALYSIS_MAX_SEGMENTS, scaled.
ANALYSIS_MIN_SEGMENTS == 1
ANALYSIS_MAX_SEGMENTS == 2

\* relevancia values the language model answers with (the scale is 1..10;
\* a segment without the key gets 7.0).
Relevancias == {3, 7}

\* timestamp_inicio / timestamp_fin values the language model answers with,
\* in seconds.
Inicios == {0}
Fines == {3}

\* How long a video lasts whose duracion_segundos is known, in seconds.
DuracionVideo == 3

\* The content of a Transcripcion / ResumenEjecutivo row not written by a
\* task of this model.
SEMBRADO == 0

\* Task names (tasks.py).
ORQ == "procesar_video_completo_task"
DESC == "descargar_video_task"
AUDIO == "extraer_audio_task"
MINI == "generar_miniatura_task"
TRANS == "transcribir_audio_task"
ANAL == "analizar_video_task"
SEG == "segmentar_video_task"
MOVER == "mover_video_a_media_task"
FIN == "finalizar_procesamiento_task"

Tasks == {ORQ, DESC, AUDIO, MINI, TRANS, ANAL, SEG, MOVER, FIN}

\* One run per request, numbered in the order the requests arrive: a
\* procesar request starts the whole canvas, reanalizar and resegmentar
\* start a single task.
Runs == 1..MaxRequests

TaskIds == Runs \X Tasks

\* Video.ESTADO_CHOICES, in declaration order.
ESTADO_CHOICES == <<"pendiente", "descargando", "procesando", "transcribiendo", "analizando", "segmentando", "completado", "error">>

\* max_retries of each task's decorator; tasks declared with a bare
\* @shared_task are never retried by their own code.
max_retries(task) ==
    CASE task = DESC -> 3
      [] task = AUDIO -> 3
      [] task = MINI -> 3
      [] task = TRANS -> 2
      [] task = ANAL -> 2
      [] task = SEG -> 2
      [] OTHER -> 0

\* The countdown factor of each task's self.retry call.
retry_base(task) ==
    CASE task = DESC -> 60
      [] task = AUDIO -> 60
      [] task = MINI -> 30
      [] task = TRANS -> 120
      [] task = ANAL -> 180
      [] task = SEG -> 120
      [] OTHER -> 0

\* The countdown with the attempt counted from 0.
countdown_desde_cero(task, retries) == retry_base(task) * retries

\* countdown=base * (self.request.retries + 1)
countdown(task, retries) == retry_base(task) * (retries + 1)

\* The etapa string each service logs under.
etapa(task) ==
    CASE task = DESC -> "descarga"
      [] task = AUDIO -> "extraccion_audio"
      [] task = MINI -> "generacion_miniatura"
      [] task = TRANS -> "transcripcion"
      [] task = ANAL -> "analisis_ia"
      [] task = SEG -> "segmentacion"
      [] task = FIN -> "finalizacion"
      [] OTHER -> NONE

\* The estado a task writes before it calls its service.
estado_de(task) ==
    CASE task = DESC -> "descargando"
      [] task = AUDIO -> "procesando"
      [] task = TRANS -> "transcribiendo"
      [] task = ANAL -> "analizando"
      [] task = SEG -> "segmentando"
      [] OTHER -> NONE

\* ----------------------------------------------------------------- state
VARIABLES
    video,          \* the Video row
    url_original,   \* whether the row has a source URL
    transcripcion,  \* the Transcripcion rows of the video: who wrote each
    resumen,        \* the ResumenEjecutivo rows of the video: who wrote each
    segmentos,      \* the Segmento rows, in creation order
    logs,           \* the LogProcesamiento rows, in creation order
    files,          \* which of the paths exist on disk
    tasks,          \* the Celery task instances
    http,           \* the requests received so far
    failures,       \* adapter failures so far
    temp_root,      \* the entries of settings.TEMP_ROOT: kind and age in hours
    limpieza,       \* what the last sweep of TEMP_ROOT returned and removed
    videos,         \* the Video table as the API sees it: owner and titulo
    response        \* the last answer of the Video API

\* The state of the pipeline of one video, and the rest.
pipeline == <<video, url_original, transcripcion, resumen, segmentos, logs, files, tasks, http, failures>>
otros == <<temp_root, limpieza, videos, response>>

vars == <<pipeline, otros>>

NoVideo == [estado |-> NONE, info |-> FALSE, miniatura_url |-> FALSE, ruta_video_completo |-> NONE, fecha_procesamiento |-> FALSE]

NoTask == [status |-> "none", retries |-> 0, args |-> <<>>, local |-> NoVideo, filas |-> <<>>, hasattr |-> FALSE, countdown |-> 0, execs |-> 0, error |-> NONE, result |-> NONE, resultados |-> <<>>]

NoRequest == [pc |-> "idle", local |-> NoVideo, response |-> 0]

Answered(code) == [pc |-> "done", local |-> NoVideo, response |-> code]

\* A Segmento row: its primary key (who created it, and its place in that
\* creation), its orden, its timestamps in seconds, its relevancia_score,
\* and whether its clip and its thumbnail are stored.
Segmento(id, orden, inicio, fin, duracion, relevancia) ==
    [id |-> id, orden |-> orden, timestamp_inicio_seg |-> inicio, timestamp_fin_seg |-> fin,
     duracion_seg |-> duracion, relevancia_score |-> relevancia,
     ruta_archivo_segmento |-> FALSE, miniatura_url |-> FALSE]

\* A LogProcesamiento row.
Log(e, estado) == [etapa |-> e, estado |-> estado]

\* The rows present before any processing.  VideoCreateSerializer demands
\* a URL or an uploaded file and sets estado 'pendiente'; Transcripcion and
\* Segmento rows can be created through their ViewSets; the command
\* generar_datos_prueba stores videos that are already 'completado'.
\*   - a video with a URL only, nothing else stored;
\*   - a video with an uploaded file, a Transcripcion and a Segmento;
\*   - a video with an uploaded file only (SoloArchivo);
\*   - a 'completado' video of generar_datos_prueba: a URL, no file, its
\*     Transcripcion, ResumenEjecutivo, Segmento and log rows.
SoloArchivo ==
    [estado |-> "pendiente", url |-> FALSE, ruta |-> UPLOAD_PATH, transcripcion |-> <<>>, resumen |-> <<>>,
     segmentos |-> <<>>, logs |-> <<>>]

Fixtures ==
    { [estado |-> "pendiente", url |-> TRUE, ruta |-> NONE, transcripcion |-> <<>>, resumen |-> <<>>,
       segmentos |-> <<>>, logs |-> <<>>],
      [estado |-> "pendiente", url |-> FALSE, ruta |-> UPLOAD_PATH, transcripcion |-> <<SEMBRADO>>, resumen |-> <<>>,
       segmentos |-> <<Segmento(<<SEMBRADO, 1>>, 1, 0, 3, 3, 7)>>, logs |-> <<>>],
      SoloArchivo,
      [estado |-> "completado", url |-> TRUE, ruta |-> NONE, transcripcion |-> <<SEMBRADO>>, resumen |-> <<SEMBRADO>>,
       segmentos |-> <<Segmento(<<SEMBRADO, 1>>, 1, 0, 3, 3, 7)>>,
       logs |-> <<Log("descarga", "completado"), Log("extraccion_audio", "completado"), Log("transcripcion", "completado")>>] }

\* The rows of one video as fixture f stores them.
Sembrado(f) ==
    /\ url_original = f.url
    /\ video = [estado |-> f.estado, info |-> FALSE, miniatura_url |-> FALSE, ruta_video_completo |-> f.ruta,
                fecha_procesamiento |-> (f.estado = "completado")]
    /\ files = IF f.ruta = NONE THEN {} ELSE {f.ruta}
    /\ transcripcion = f.transcripcion
    /\ resumen = f.resumen
    /\ segmentos = f.segmentos
    /\ logs = f.logs

\* No task sent, no request received, no adapter failure yet.
SinTareas ==
    /\ tasks = [t \in TaskIds |-> NoTask]
    /\ http = [h \in Runs |-> NoRequest]
    /\ failures = 0

\* ----------------------------------------------------------------- the rest
\* The names settings.TEMP_ROOT can hold, the oldest age in hours the model
\* follows a file to, settings.TEMP_FILE_LIFETIME_HOURS (scaled), and how
\* many sweeps are run.
Entradas == {"a", "b", "c"}
MaxEdad == 3
TEMP_FILE_LIFETIME_HOURS == 1
MaxBarridos == 2

\* An entry of TEMP_ROOT: a name not in use, a regular file, a directory.
Ausente == [kind |-> "none", edad |-> 0]
Archivo(edad) == [kind |-> "file", edad |-> edad]
Directorio(edad) == [kind |-> "dir", edad |-> edad]

\* No sweep has run.
NoLimpieza == [n |-> 0, deleted_count |-> 0, error |-> FALSE]

\* Usuario rows and their rol (Usuario.ROL_CHOICES); every request of the
\* model carries the token of one of them.
Usuarios == {"docente1", "docente2", "admin1", "estudiante1"}

rol(u) ==
    CASE u = "admin1" -> "admin"
      [] u = "estudiante1" -> "estudiante"
      [] OTHER -> "docente"

\* Primary keys of the Video table, the titulo values requests carry, the
\* timestamps (seconds) a segment request carries, and the Segmento rows
\* the API stores at most.
MaxVideos == 2
VideoIds == 1..MaxVideos
Titulos == {"titulo", "otro titulo"}
MaxTiempo == 2
Tiempos == 0..MaxTiempo
MaxFilas == 2

\* A primary key not yet given out.
NoFila == [existe |-> FALSE, usuario |-> NONE, titulo |-> NONE]

NoRespuesta == [status |-> 0, results |-> {}]

Respuesta(code) == [status |-> code, results |-> {}]

\* Nothing in TEMP_ROOT, no sweep, no Video row in the API's table.
SinOtros ==
    /\ temp_root = [e \in Entradas |-> Ausente]
    /\ limpieza = NoLimpieza
    /\ videos = [v \in VideoIds |-> NoFila]
    /\ response = NoRespuesta

Init ==
    /\ \E f \in Fixtures : Sembrado(f)
    /\ SinTareas
    /\ SinOtros

\* ----------------------------------------------------------------- Celery
\* Signature.apply_async / task.delay: a new task instance with its
\* positional arguments.
Sent(args) == [NoTask EXCEPT !.status = "queued", !.args = args]

\* A signature in a chain: .s(...) receives the parent's result before its
\* own arguments, .si(...) is immutable and receives only its own.
Signature(own_args, immutable, parent_result) ==
    IF immutable THEN own_args ELSE <<parent_result>> \o own_args

\* A log that keeps only the row of the last progress report.
log_progress_ultimo(task, estado) == <<Log(etapa(task), estado)>>

\* A log that keeps no 'error' rows.
log_progress_sin_error(task, estado) == IF estado = "error" THEN logs ELSE Append(logs, Log(etapa(task), estado))

\* LogProcesamiento.objects.create
log_progress(task, estado) == Append(logs, Log(etapa(task), estado))

\* Video.objects.get(id=video_id) finds the row only for its primary key;
\* any other value raises (ValueError / TypeError for a non-number).
VideoExists(video_id) == video_id = VID

\* ----------------------------------------------------------------- views
\* The next request is the first one not yet received.
Arrives(h) == http[h].pc = "idle" /\ \A g \in Runs : g < h => http[g].pc # "idle"

\* Whether run r was started by procesar.
IsPipeline(ts, r) == ts[<<r, ORQ>>].status # "none"

\* A procesar that writes 'procesando' before it calls delay.
procesar_check_guarda_antes(h, ok) ==
    /\ Arrives(h)
    /\ IF video.estado # "pendiente" \/ ~url_original
       THEN /\ http' = [http EXCEPT ![h] = Answered(400)]
            /\ ok
            /\ UNCHANGED <<tasks, video>>
       ELSE IF ok
       THEN /\ tasks' = [tasks EXCEPT ![<<h, ORQ>>] = Sent(<<VID>>)]
            /\ http' = [http EXCEPT ![h] = [pc |-> "save", local |-> video, response |-> 0]]
            /\ UNCHANGED video
       ELSE /\ http' = [http EXCEPT ![h] = Answered(500)]
            /\ video' = [video EXCEPT !.estado = "procesando"]
            /\ UNCHANGED tasks
    /\ UNCHANGED <<url_original, transcripcion, resumen, segmentos, logs, files, failures, otros>>

\* procesar, up to and including procesar_video_completo_task.delay: the
\* row is read, the two checks answer 400, a delay that raises answers 500.
procesar_check(h, ok) ==
    /\ Arrives(h)
    /\ IF video.estado # "pendiente" \/ ~url_original
       THEN /\ http' = [http EXCEPT ![h] = Answered(400)]
            /\ ok
            /\ UNCHANGED tasks
       ELSE IF ok
       THEN /\ tasks' = [tasks EXCEPT ![<<h, ORQ>>] = Sent(<<VID>>)]
            /\ http' = [http EXCEPT ![h] = [pc |-> "save", local |-> video, response |-> 0]]
       ELSE /\ http' = [http EXCEPT ![h] = Answered(500)]
            /\ UNCHANGED tasks
    /\ UNCHANGED <<video, url_original, transcripcion, resumen, segmentos, logs, files, failures, otros>>

\* procesar, after delay returned: video.estado = 'procesando'; video.save()
\* writes every field of the instance read by get_object().
procesar_save(h) ==
    /\ http[h].pc = "save"
    /\ video' = [http[h].local EXCEPT !.estado = "procesando"]
    /\ http' = [http EXCEPT ![h] = Answered(202)]
    /\ UNCHANGED <<url_original, transcripcion, resumen, segmentos, logs, files, tasks, failures, otros>>

\* reanalizar without its check: analizar_video_task.delay for any video.
reanalizar_sin_comprobar(h) ==
    /\ Arrives(h)
    /\ tasks' = [tasks EXCEPT ![<<h, ANAL>>] = Sent(<<VID>>)]
    /\ http' = [http EXCEPT ![h] = Answered(202)]
    /\ UNCHANGED <<video, url_original, transcripcion, resumen, segmentos, logs, files, failures, otros>>

\* reanalizar: 400 without a Transcripcion, else analizar_video_task.delay.
reanalizar(h) ==
    /\ Arrives(h)
    /\ IF transcripcion # <<>>
       THEN /\ tasks' = [tasks EXCEPT ![<<h, ANAL>>] = Sent(<<VID>>)]
            /\ http' = [http EXCEPT ![h] = Answered(202)]
       ELSE /\ http' = [http EXCEPT ![h] = Answered(400)]
            /\ UNCHANGED tasks
    /\ UNCHANGED <<video, url_original, transcripcion, resumen, segmentos, logs, files, failures, otros>>

\* resegmentar: 400 without segments or without a stored file, else
\* segmentar_video_task.delay(video.id, str(video.ruta_video_completo.path)).
resegmentar(h) ==
    /\ Arrives(h)
    /\ IF segmentos # <<>> /\ video.ruta_video_completo # NONE
       THEN /\ tasks' = [tasks EXCEPT ![<<h, SEG>>] = Sent(<<VID, video.ruta_video_completo>>)]
            /\ http' = [http EXCEPT ![h] = Answered(202)]
       ELSE /\ http' = [http EXCEPT ![h] = Answered(400)]
            /\ UNCHANGED tasks
    /\ UNCHANGED <<video, url_original, transcripcion, resumen, segmentos, logs, files, failures, otros>>

\* SegmentoViewSet.destroy (DELETE /segmentos/{id}/): one Segmento row of
\* the video is deleted.
destroy(h) ==
    /\ Arrives(h)
    /\ \E i \in DOMAIN segmentos :
          segmentos' = SubSeq(segmentos, 1, i - 1) \o SubSeq(segmentos, i + 1, Len(segmentos))
    /\ http' = [http EXCEPT ![h] = Answered(204)]
    /\ UNCHANGED <<video, url_original, transcripcion, resumen, logs, files, tasks, failures, otros>>

\* ----------------------------------------------------------------- workflow
\* The canvas built by procesar_video_completo_task: the signature that
\* follows `task` in the chain, as <<next task, immutable>>.  The group of
\* the audio chain and the thumbnail followed by segmentar_video_task is a
\* chord: its body is sent once every header task has succeeded, with the
\* list of their results.
workflow(ts, r, task, result) ==
    LET video_id == ts[<<r, ORQ>>].args[1]
        send(immutable, parent) == Sent(Signature(<<video_id>>, immutable, parent))
    IN  IF ~IsPipeline(ts, r) THEN ts
        ELSE CASE task = ORQ -> [ts EXCEPT ![<<r, DESC>>] = Sent(<<video_id>>)]
               [] task = DESC -> [ts EXCEPT ![<<r, AUDIO>>] = send(FALSE, result),
                                            ![<<r, MINI>>] = send(FALSE, result)]
               [] task = AUDIO -> [ts EXCEPT ![<<r, TRANS>>] = send(FALSE, result)]
               [] task = TRANS -> [ts EXCEPT ![<<r, ANAL>>] = send(TRUE, result)]
               [] task = ANAL -> IF ts[<<r, MINI>>].status = "success"
                                 THEN [ts EXCEPT ![<<r, SEG>>] = send(FALSE, GROUP_RESULT)]
                                 ELSE ts
               [] task = MINI -> IF ts[<<r, ANAL>>].status = "success"
                                 THEN [ts EXCEPT ![<<r, SEG>>] = send(FALSE, GROUP_RESULT)]
                                 ELSE ts
               [] task = SEG -> [ts EXCEPT ![<<r, MOVER>>] = send(FALSE, result)]
               [] task = MOVER -> [ts EXCEPT ![<<r, FIN>>] = send(TRUE, result)]
               [] OTHER -> ts

\* A task returns: its state is SUCCESS and the canvas continues.
Succeed(t, result) ==
    workflow([tasks EXCEPT ![t].status = "success", ![t].result = result, ![t].local = NoVideo, ![t].filas = <<>>],
             t[1], t[2], result)

\* A task ends with an exception it does not retry.
Fail(t, kind) == [tasks EXCEPT ![t].status = "failure", ![t].error = kind, ![t].local = NoVideo, ![t].filas = <<>>]

\* self.retry comparing retries with max_retries inclusively.
retry_una_de_mas(t) ==
    IF tasks[t].retries <= max_retries(t[2])
    THEN [tasks EXCEPT ![t].status = "queued", ![t].retries = @ + 1, ![t].local = NoVideo, ![t].filas = <<>>,
                       ![t].countdown = countdown(t[2], tasks[t].retries)]
    ELSE Fail(t, "adapter")

\* raise self.retry(exc=e, countdown=...): a new delivery with retries + 1,
\* or the exception itself once retries has reached max_retries.
retry(t) ==
    IF tasks[t].retries < max_retries(t[2])
    THEN [tasks EXCEPT ![t].status = "queued", ![t].retries = @ + 1, ![t].local = NoVideo, ![t].filas = <<>>,
                       ![t].countdown = countdown(t[2], tasks[t].retries)]
    ELSE Fail(t, "adapter")

\* procesar_video_completo_task: build the canvas and apply_async it; an
\* exception there sets estado 'error' and fails the task.
procesar_video_completo_task(r, ok) ==
    /\ tasks[<<r, ORQ>>].status = "queued"
    /\ IF ok
       THEN /\ tasks' = workflow([tasks EXCEPT ![<<r, ORQ>>].status = "success", ![<<r, ORQ>>].execs = @ + 1],
                                 r, ORQ, NONE)
            /\ UNCHANGED video
       ELSE /\ tasks' = [tasks EXCEPT ![<<r, ORQ>>].status = "failure", ![<<r, ORQ>>].execs = @ + 1,
                                      ![<<r, ORQ>>].error = "unexpected"]
            /\ video' = [video EXCEPT !.estado = "error"]
    /\ UNCHANGED <<url_original, transcripcion, resumen, segmentos, logs, files, http, failures, otros>>

\* ----------------------------------------------------------------- tasks
\* Every task but the orchestrating one binds its positional arguments to
\* (video_id, path).
video_id_of(t) == tasks[t].args[1]
path_of(t) == IF Len(tasks[t].args) >= 2 THEN tasks[t].args[2] ELSE NONE

\* The rows in the order they are stored.
order_by_id(rows) == {rows}

\* self.video.segmentos.all().order_by('orden'), evaluated by the for loop:
\* the rows ascending in orden; rows of equal orden come in whichever order
\* the database returns them.
order_by_orden(rows) ==
    LET n == Len(rows)
        Ordenes == {p \in [1..n -> 1..n] :
                       /\ \A i, k \in 1..n : i # k => p[i] # p[k]
                       /\ \A i, k \in 1..n : i < k => rows[p[i]].orden <= rows[p[k]].orden}
    IN  {[i \in 1..n |-> rows[p[i]]] : p \in Ordenes}

\* _cut_segment: output_filename = f'segmento_{self.video.id}_{segmento.orden}.mp4'
cut_segment(video_id, segmento) == <<"segmento", video_id, segmento.orden, "mp4">>

\* _generate_segment_thumbnail: thumbnail_filename =
\* f'thumb_seg_{self.video.id}_{segmento.orden}.jpg'
thumbnail_filename(video_id, segmento) == <<"thumb_seg", video_id, segmento.orden, "jpg">>

\* _generate_segment_thumbnail: timestamp = timestamp_inicio_seg +
\* (duracion_seg / 2), a float; the model keeps twice its value.
timestamp_x2(segmento) == 2 * segmento.timestamp_inicio_seg + segmento.duracion_seg

\* A worker takes a queued task and runs it up to its external operation.
\*  - Video.objects.get(id=video_id) raising anything but DoesNotExist lands
\*    in `except Exception`, whose own get raises again and is swallowed:
\*    nothing is written and the task fails without a retry;
\*  - descargar / extraer_audio / transcribir / analizar / segmentar write
\*    their estado, then their service logs 'iniciado'; segmentar reads the
\*    Segmento rows it is going to cut;
\*  - generar_miniatura only reads the row, then its service logs 'iniciado';
\*  - mover_video_a_media only reads the row;
\*  - finalizar_procesamiento has no external operation: it writes
\*    'completado' and the date, logs, and returns.
WorkerStart(t) ==
    LET task == t[2] IN
    /\ task # ORQ
    /\ tasks[t].status = "queued"
    /\ IF ~VideoExists(video_id_of(t))
       THEN /\ tasks' = [Fail(t, "unexpected") EXCEPT ![t].execs = @ + 1]
            /\ UNCHANGED <<video, logs>>
       ELSE CASE task \in {DESC, AUDIO, TRANS, ANAL} ->
                   /\ video' = [video EXCEPT !.estado = estado_de(task)]
                   /\ logs' = log_progress(task, "iniciado")
                   /\ tasks' = [tasks EXCEPT ![t].status = "started", ![t].execs = @ + 1, ![t].local = video']
              [] task = SEG ->
                   /\ video' = [video EXCEPT !.estado = estado_de(task)]
                   /\ logs' = log_progress(task, "iniciado")
                   /\ \E filas \in order_by_orden(segmentos) :
                         tasks' = [tasks EXCEPT ![t].status = "started", ![t].execs = @ + 1, ![t].local = video',
                                                ![t].filas = filas]
              [] task = MINI ->
                   /\ logs' = log_progress(task, "iniciado")
                   /\ tasks' = [tasks EXCEPT ![t].status = "started", ![t].execs = @ + 1, ![t].local = video]
                   /\ UNCHANGED video
              [] task = MOVER ->
                   /\ tasks' = [tasks EXCEPT ![t].status = "started", ![t].execs = @ + 1, ![t].local = video]
                   /\ UNCHANGED <<video, logs>>
              [] task = FIN ->
                   /\ video' = [video EXCEPT !.estado = "completado", !.fecha_procesamiento = TRUE]
                   /\ logs' = log_progress(task, "completado")
                   /\ tasks' = [Succeed(t, NONE) EXCEPT ![t].execs = @ + 1]
    /\ UNCHANGED <<url_original, transcripcion, resumen, segmentos, files, http, failures, otros>>

\* Whether the external operation of a started task succeeds: `ok` is the
\* answer of the adapter (yt-dlp, ffmpeg, Whisper, the language model, the
\* database), the rest are the checks the service makes before calling it.
Succeeds(t, ok) ==
    LET task == t[2] IN
    CASE task = DESC -> ok /\ url_original
      [] task \in {AUDIO, MINI, TRANS, SEG, MOVER} -> ok /\ path_of(t) \in files
      [] task = ANAL -> ok /\ transcripcion # <<>>
      [] OTHER -> ok

\* What the language model can answer to _identify_important_segments: up
\* to MaxSegmentos segments, each valid or not (a required key is missing,
\* or its timestamps are not numbers), with its timestamps and a
\* relevancia.  (A call that raises is answered with [].)
Respuestas ==
    UNION { [1..k -> [valido : BOOLEAN, relevancia : Relevancias,
                      timestamp_inicio : Inicios, timestamp_fin : Fines]] : k \in 0..MaxSegmentos }

\* validados.sort(key=relevancia, reverse=True), one element at a time: x
\* goes behind the elements that are not less relevant than it.
Insertar(ordenados, x) ==
    LET k == Cardinality({i \in DOMAIN ordenados : ordenados[i].relevancia >= x.relevancia})
    IN  SubSeq(ordenados, 1, k) \o <<x>> \o SubSeq(ordenados, k + 1, Len(ordenados))

RECURSIVE Ordenar(_)
Ordenar(segments) ==
    IF segments = <<>> THEN <<>>
    ELSE Insertar(Ordenar(SubSeq(segments, 1, Len(segments) - 1)), segments[Len(segments)])

\* Video.duracion_segundos of a row: recorded by the download (every video
\* of the model lasts DuracionVideo seconds), else 0.
duracion_segundos(v) == IF v.info THEN DuracionVideo ELSE 0

\* max(1.0, min(10.0, relevancia))
Acotar(relevancia) == IF relevancia > 10 THEN 10 ELSE IF relevancia < 1 THEN 1 ELSE relevancia

\* AnalysisService._validate_segments for a video of the given
\* duracion_segundos: drop the segments without their required keys or
\* with inicio < 0 or fin <= inicio, then cut fin at the duration of the
\* video when it is known, compute duracion = fin - inicio, bring
\* relevancia into [1, 10], sort by relevancia descending, keep the first
\* ANALYSIS_MAX_SEGMENTS.
validate_segments(segments, duracion) ==
    LET EsValido(seg) == seg.valido /\ ~(seg.timestamp_inicio < 0 \/ seg.timestamp_fin <= seg.timestamp_inicio)
        validos == SelectSeq(segments, EsValido)
        Fin(seg) == IF duracion # 0 /\ seg.timestamp_fin > duracion THEN duracion ELSE seg.timestamp_fin
        validados == [i \in DOMAIN validos |->
                        [timestamp_inicio |-> validos[i].timestamp_inicio,
                         timestamp_fin |-> Fin(validos[i]),
                         duracion |-> Fin(validos[i]) - validos[i].timestamp_inicio,
                         relevancia |-> Acotar(validos[i].relevancia)]]
        ordenados == Ordenar(validados)
    IN  SubSeq(ordenados, 1, IF Len(ordenados) < ANALYSIS_MAX_SEGMENTS THEN Len(ordenados) ELSE ANALYSIS_MAX_SEGMENTS)

\* AnalysisService._identify_important_segments: the answer of the language
\* model validated, or [] when anything in the call raised (the request,
\* json.loads, the validation).
identify_important_segments(respuesta, raises, duracion) ==
    IF raises THEN <<>> ELSE validate_segments(respuesta, duracion)

\* The Segmento rows analizar_video_task of run r creates from the segments
\* the analysis returned: orden = 1..n by enumerate(..., 1).
NuevosSegmentos(r, segmentos_importantes) ==
    [i \in DOMAIN segmentos_importantes |->
        Segmento(<<r, i>>, i, segmentos_importantes[i].timestamp_inicio, segmentos_importantes[i].timestamp_fin,
                 segmentos_importantes[i].duracion, segmentos_importantes[i].relevancia)]

\* The rows after the new ones replaced the stored ones.
Segmento_objects_replace(rows, nuevos) == nuevos

\* Segmento.objects.create for each new row: the stored rows stay.
Segmento_objects_create(rows, nuevos) == rows \o nuevos

\* A table without the unique constraint never refuses a row.
SinRestriccion(rows, hasattr) == FALSE

\* Transcripcion.video and ResumenEjecutivo.video are OneToOneFields:
\* objects.create raises IntegrityError when the video already has a row.
IntegrityError(rows, hasattr) == ~hasattr /\ rows # <<>>

\* _save_transcription / _save_analysis: the row found by hasattr is
\* updated in place, else a row is created.
upsert(rows, hasattr, contenido) ==
    IF hasattr /\ rows # <<>> THEN [rows EXCEPT ![1] = contenido] ELSE Append(rows, contenido)

\* What segment_video returns: one entry for each segment read whose clip
\* was cut and stored, in the order the segments were processed, with the
\* names of its clip and of its thumbnail (or None, here <<>>) and the time
\* the thumbnail was asked at.
Resultados(video_id, filas, fallan, sin_miniatura) ==
    LET EsCortado(i) == i \notin fallan
        cortados == SelectSeq([i \in DOMAIN filas |-> i], EsCortado)
    IN  [k \in DOMAIN cortados |->
            LET i == cortados[k] IN
            [segmento |-> filas[i].id,
             thumbnail |-> i \notin sin_miniatura,
             video_path |-> cut_segment(video_id, filas[i]),
             thumbnail_path |-> IF i \in sin_miniatura THEN <<>> ELSE thumbnail_filename(video_id, filas[i]),
             ss_x2 |-> timestamp_x2(filas[i])]]

\* _update_segment_files: the clip and, when there is one, the thumbnail
\* are set on the instance segment_video read, and segmento.save() writes
\* every field of that instance: an UPDATE of the row with its primary
\* key, or an INSERT when no row has it any more.
update_segment_files(rows, segmento, thumbnail) ==
    LET guardado == [segmento EXCEPT !.ruta_archivo_segmento = TRUE, !.miniatura_url = @ \/ thumbnail]
    IN  IF \E i \in DOMAIN rows : rows[i].id = segmento.id
        THEN [i \in DOMAIN rows |-> IF rows[i].id = segmento.id THEN guardado ELSE rows[i]]
        ELSE Append(rows, guardado)

\* The for loop of segment_video from its i-th segment on: a segment whose
\* clip fails is skipped, the others are stored one after the other.
RECURSIVE segment_video(_, _, _, _, _)
segment_video(rows, filas, fallan, sin_miniatura, i) ==
    IF i > Len(filas) THEN rows
    ELSE segment_video(IF i \in fallan THEN rows ELSE update_segment_files(rows, filas[i], i \notin sin_miniatura),
                       filas, fallan, sin_miniatura, i + 1)

\* The external operation of a started task ends, and the task with it.
\*  success: the service stores its artifact and logs 'completado', the task
\*           returns and the canvas continues; transcription and analysis
\*           look for their row (hasattr) and store it in the next step;
\*           segmentation cuts each Segmento it read in a try / except of its
\*           own and stores the instance it read: a
\*           segment that fails is reported to the process log only and
\*           skipped, a thumbnail that fails leaves the segment without one,
\*           and a video without segments returns before 'completado' is
\*           logged;
\*  failure: the service logs 'error' and raises its error; the task writes
\*           estado 'error' on a freshly read row (generar_miniatura does
\*           not) and calls self.retry; mover_video_a_media only re-raises.
task_run(t, ok) ==
    LET task == t[2]
        local == tasks[t].local
        filas == tasks[t].filas
    IN
    /\ tasks[t].status = "started"
    /\ ok \/ failures < MaxFailures
    /\ failures' = IF ok THEN failures ELSE failures + 1
    /\ IF Succeeds(t, ok)
       THEN CASE task = DESC ->
                   /\ video' = [local EXCEPT !.info = TRUE, !.estado = "descargando"]
                   /\ files' = files \cup {TEMP_PATH}
                   /\ logs' = log_progress(task, "completado")
                   /\ tasks' = Succeed(t, TEMP_PATH)
                   /\ UNCHANGED <<transcripcion, resumen, segmentos>>
              [] task = AUDIO ->
                   /\ files' = files \cup {AUDIO_PATH}
                   /\ logs' = log_progress(task, "completado")
                   /\ tasks' = Succeed(t, AUDIO_PATH)
                   /\ UNCHANGED <<video, transcripcion, resumen, segmentos>>
              [] task = MINI ->
                   /\ video' = [local EXCEPT !.miniatura_url = TRUE]
                   /\ files' = files \cup {THUMB_PATH}
                   /\ logs' = log_progress(task, "completado")
                   /\ tasks' = Succeed(t, THUMB_PATH)
                   /\ UNCHANGED <<transcripcion, resumen, segmentos>>
              [] task = TRANS ->
                   /\ tasks' = [tasks EXCEPT ![t].status = "saving", ![t].hasattr = (transcripcion # <<>>)]
                   /\ UNCHANGED <<video, transcripcion, resumen, segmentos, logs, files>>
              [] task = ANAL ->
                   /\ tasks' = [tasks EXCEPT ![t].status = "saving", ![t].hasattr = (resumen # <<>>)]
                   /\ UNCHANGED <<video, transcripcion, resumen, segmentos, logs, files>>
              [] task = SEG ->
                   /\ IF filas = <<>>
                      THEN /\ tasks' = Succeed(t, SEG_RESULT)
                           /\ UNCHANGED <<segmentos, logs>>
                      ELSE \E fallan \in SUBSET DOMAIN filas :
                           \E sin_miniatura \in SUBSET (DOMAIN filas \ fallan) :
                              /\ segmentos' = segment_video(segmentos, filas, fallan, sin_miniatura, 1)
                              /\ logs' = log_progress(task, "completado")
                              /\ tasks' = [Succeed(t, SEG_RESULT) EXCEPT
                                              ![t].resultados = Resultados(video_id_of(t), filas, fallan, sin_miniatura)]
                   /\ UNCHANGED <<video, transcripcion, resumen, files>>
              [] task = MOVER ->
                   /\ files' = (files \ {path_of(t)}) \cup {MEDIA_PATH}
                   /\ video' = [local EXCEPT !.ruta_video_completo = MEDIA_PATH]
                   /\ tasks' = Succeed(t, MEDIA_PATH)
                   /\ UNCHANGED <<transcripcion, resumen, segmentos, logs>>
       ELSE CASE task \in {DESC, AUDIO, TRANS, ANAL, SEG} ->
                   /\ logs' = log_progress(task, "error")
                   /\ video' = [video EXCEPT !.estado = "error"]
                   /\ tasks' = retry(t)
                   /\ UNCHANGED <<transcripcion, resumen, segmentos, files>>
              [] task = MINI ->
                   /\ logs' = log_progress(task, "error")
                   /\ tasks' = retry(t)
                   /\ UNCHANGED <<video, transcripcion, resumen, segmentos, files>>
              [] task = MOVER ->
                   /\ tasks' = Fail(t, "unexpected")
                   /\ UNCHANGED <<video, transcripcion, resumen, segmentos, logs, files>>
    /\ UNCHANGED <<url_original, http>>

\* The same beside a TEMP_ROOT nobody looks at.
WorkerFinish(t, ok) == task_run(t, ok) /\ UNCHANGED otros

\* An analysis that creates its Segmento rows before it stores the
\* ResumenEjecutivo: the rows are there when the database refuses the
\* summary and the task is retried.
analizar_video_task_save_segmentos_antes(t, raises, respuestas) ==
    LET task == t[2]
        rows == IF task = TRANS THEN transcripcion ELSE resumen
    IN
    /\ tasks[t].status = "saving"
    /\ \E respuesta \in respuestas :
          LET segmentos_importantes == identify_important_segments(respuesta, raises, duracion_segundos(tasks[t].local))
              creados == IF task = ANAL
                         THEN Segmento_objects_create(segmentos, NuevosSegmentos(t[1], segmentos_importantes))
                         ELSE segmentos
          IN
          IF IntegrityError(rows, tasks[t].hasattr)
          THEN /\ logs' = log_progress(task, "error")
               /\ video' = [video EXCEPT !.estado = "error"]
               /\ tasks' = [retry(t) EXCEPT ![t].hasattr = FALSE]
               /\ segmentos' = creados
               /\ UNCHANGED <<transcripcion, resumen>>
          ELSE /\ logs' = log_progress(task, "completado")
               /\ segmentos' = creados
               /\ IF task = TRANS
                  THEN /\ transcripcion' = upsert(rows, tasks[t].hasattr, t[1])
                       /\ tasks' = [Succeed(t, TRANS_RESULT) EXCEPT ![t].hasattr = FALSE]
                       /\ UNCHANGED resumen
                  ELSE /\ resumen' = upsert(rows, tasks[t].hasattr, t[1])
                       /\ tasks' = [Succeed(t, ANAL_RESULT) EXCEPT ![t].hasattr = FALSE,
                                                                   ![t].resultados = segmentos_importantes]
                       /\ UNCHANGED transcripcion
               /\ UNCHANGED video
    /\ UNCHANGED <<url_original, files, http, failures, otros>>

\* transcribir_audio_task / analizar_video_task after the adapter answered
\* (`raises`: whether identifying the segments raised; `respuestas`: what
\* the language model can answer):
\* the service stores its row, logs 'completado' and returns, and
\* analizar_video_task creates one Segmento for each segment of the
\* validated answer.  A create refused by the database is an exception of
\* the service like any other: 'error' is logged, the task writes estado
\* 'error' and calls self.retry.
analizar_video_task_save_de(t, raises, respuestas) ==
    LET task == t[2]
        rows == IF task = TRANS THEN transcripcion ELSE resumen
    IN
    /\ tasks[t].status = "saving"
    /\ IF IntegrityError(rows, tasks[t].hasattr)
       THEN /\ logs' = log_progress(task, "error")
            /\ video' = [video EXCEPT !.estado = "error"]
            /\ tasks' = [retry(t) EXCEPT ![t].hasattr = FALSE]
            /\ UNCHANGED <<transcripcion, resumen, segmentos>>
       ELSE /\ logs' = log_progress(task, "completado")
            /\ IF task = TRANS
               THEN /\ transcripcion' = upsert(rows, tasks[t].hasattr, t[1])
                    /\ tasks' = [Succeed(t, TRANS_RESULT) EXCEPT ![t].hasattr = FALSE]
                    /\ UNCHANGED <<resumen, segmentos>>
               ELSE \E respuesta \in respuestas :
                    LET segmentos_importantes ==
                            identify_important_segments(respuesta, raises, duracion_segundos(tasks[t].local))
                    IN
                    /\ resumen' = upsert(rows, tasks[t].hasattr, t[1])
                    /\ segmentos' = Segmento_objects_create(segmentos, NuevosSegmentos(t[1], segmentos_importantes))
                    /\ tasks' = [Succeed(t, ANAL_RESULT) EXCEPT ![t].hasattr = FALSE,
                                                                ![t].resultados = segmentos_importantes]
                    /\ UNCHANGED transcripcion
            /\ UNCHANGED video
    /\ UNCHANGED <<url_original, files, http, failures, otros>>

\* The same for the answers the model draws from Respuestas.
analizar_video_task_save(t, raises) == analizar_video_task_save_de(t, raises, Respuestas)

WorkerSave(t) == \E raises \in BOOLEAN : analizar_video_task_save(t, raises)

\* ----------------------------------------------------------------- system
Next ==
    \/ \E h \in Runs, ok \in BOOLEAN : procesar_check(h, ok)
    \/ \E h \in Runs : procesar_save(h)
    \/ \E h \in Runs : reanalizar(h)
    \/ \E h \in Runs : resegmentar(h)
    \/ \E r \in Runs, ok \in BOOLEAN : procesar_video_completo_task(r, ok)
    \/ \E t \in TaskIds : WorkerStart(t)
    \/ \E h \in Runs : destroy(h)
    \/ \E t \in TaskIds, ok \in BOOLEAN : WorkerFinish(t, ok)
    \/ \E t \in TaskIds : WorkerSave(t)

Spec == Init /\ [][Next]_vars

\* ----------------------------------------------------------------- properties
\* Position of an estado in ESTADO_CHOICES.
Rank(e) == CHOOSE i \in DOMAIN ESTADO_CHOICES : ESTADO_CHOICES[i] = e

\* Run r has work outstanding: its request is being handled or one of its
\* tasks is queued (also for a retry) or running.
RunActive(r) ==
    \/ http[r].pc = "save"
    \/ \E s \in Tasks : tasks[<<r, s>>].status \in {"queued", "started", "saving"}

\* Run r was started by procesar and has nothing outstanding.
Settled(r) == IsPipeline(tasks, r) /\ ~RunActive(r)

\* The adapter of a task of run r raised its error at least once.
AdapterFailed(r, s) == tasks[<<r, s>>].retries > 0 \/ tasks[<<r, s>>].error = "adapter"

Logged(e, estado) == \E i \in DOMAIN logs : logs[i] = Log(e, estado)

\* C1: at most one pipeline run of the video is active at any time, also
\* when two procesar requests interleave between the check of estado and
\* the write of 'procesando'.
C1_SingleFlight ==
    \A r1, r2 \in Runs :
        (IsPipeline(tasks, r1) /\ RunActive(r1) /\ IsPipeline(tasks, r2) /\ RunActive(r2)) => r1 = r2

\* C2: a change of video.estado made by procesar or by a task moves
\* forward in the order pendiente, descargando, procesando, transcribiendo,
\* analizando, segmentando, completado, or goes to error: the stored
\* estado never moves backwards.  (Stated for the changes that leave an
\* estado of the order; those that leave error are C8's.)
C2_Monotonic ==
    [][(video'.estado # video.estado /\ video.estado # "error") =>
          \/ video'.estado = "error"
          \/ Rank(video'.estado) > Rank(video.estado)]_vars

C4_RetryDelay ==
    \A t \in TaskIds :
        tasks[t].retries > 0 =>
            tasks[t].countdown =
                tasks[t].retries * (CASE t[2] \in {DESC, AUDIO} -> 60
                                      [] t[2] = MINI -> 30
                                      [] t[2] \in {TRANS, SEG} -> 120
                                      [] t[2] = ANAL -> 180
                                      [] OTHER -> 0)

\* The second attempt of a download failed and waits for its retry, 120
\* seconds away.
C4_Witness ==
    \E r \in Runs :
        /\ tasks[<<r, DESC>>].status = "queued"
        /\ tasks[<<r, DESC>>].retries = 2
        /\ tasks[<<r, DESC>>].countdown = 120

\* C5: in a run where no adapter but the thumbnail's fails, the thumbnail
\* task failing does not stop the run: once the run has settled the video
\* is completado and the log holds an error entry of the thumbnail stage
\* and completado entries of the audio-chain stages.
C5_ThumbnailNonFatal ==
    \A r \in Runs :
        ( /\ Settled(r)
          /\ tasks[<<r, ORQ>>].status = "success"
          /\ tasks[<<r, MINI>>].status = "failure"
          /\ \A s \in Tasks \ {MINI} : ~AdapterFailed(r, s) )
        => /\ video.estado = "completado"
           /\ Logged("generacion_miniatura", "error")
           /\ Logged("extraccion_audio", "completado")
           /\ Logged("transcripcion", "completado")
           /\ Logged("analisis_ia", "completado")

\* C7: when a stage of a pipeline run has failed for good, the video's
\* estado is error and stays error.
C7_FailureLeavesError ==
    \A t \in TaskIds :
        (IsPipeline(tasks, t[1]) /\ t[2] # ORQ /\ tasks[t].status = "failure") => video.estado = "error"

\* C8: error is terminal: once video.estado is error no automatic step
\* moves it to another estado; stated for the step the claim singles out,
\* the scheduled retry of a failed stage of a pipeline run starting.
C8_ErrorTerminal ==
    [][(/\ video.estado = "error"
        /\ \E t \in TaskIds : /\ IsPipeline(tasks, t[1])
                               /\ tasks[t].retries > 0
                               /\ tasks[t].status = "queued"
                               /\ tasks'[t].status # "queued")
          => video'.estado = "error"]_vars

\* C9: a run none of whose stages used up its attempts reaches
\* finalization: once it has settled the video is completado, its
\* fecha_procesamiento is set and the log holds the completado entry of
\* the finalizacion stage.
C9_ReachesFinalization ==
    \A r \in Runs :
        ( /\ Settled(r)
          /\ tasks[<<r, ORQ>>].status = "success"
          /\ \A s \in Tasks : tasks[<<r, s>>].error # "adapter" )
        => /\ video.estado = "completado"
           /\ video.fecha_procesamiento
           /\ Logged("finalizacion", "completado")

\* C10: every stage of a pipeline run is called with the id of the
\* submitted video and its upstream artifact: audio extraction and
\* thumbnail with the path download returned, transcription with the audio
\* path, segmentation and the move to media with the path of the full video.
C10_StageArguments ==
    \A t \in TaskIds :
        (IsPipeline(tasks, t[1]) /\ tasks[t].status # "none" /\ t[2] # ORQ) =>
            /\ video_id_of(t) = VID
            /\ t[2] \in {AUDIO, MINI, SEG, MOVER} => path_of(t) = TEMP_PATH
            /\ t[2] = TRANS => path_of(t) = AUDIO_PATH

\* The six stages of the pipeline.
Etapas == {DESC, AUDIO, MINI, TRANS, ANAL, SEG}

\* How many rows of a log are of etapa e with the given estado.
Cuenta(l, e, estado) == Cardinality({i \in DOMAIN l : l[i] = Log(e, estado)})

\* Run r is the only one that has sent a task.
OnlyRun(r) == \A r2 \in Runs \ {r}, s \in Tasks : tasks[<<r2, s>>].status = "none"

\* C11: when the download of a run fails on attempts 1 and 2 and succeeds
\* on attempt 3, the rows of the download stage hold exactly 2 error
\* entries followed by exactly 1 completado entry, and no row of a later
\* stage is written before the third download attempt has started; the
\* tasks of the later stages are sent only once the download has succeeded.
C11_DownloadRetries ==
    \A r \in Runs :
        /\ \A s \in Tasks \ {ORQ, DESC} :
              (IsPipeline(tasks, r) /\ tasks[<<r, s>>].status # "none") => tasks[<<r, DESC>>].status = "success"
        /\ ( /\ IsPipeline(tasks, r)
             /\ OnlyRun(r)
             /\ tasks[<<r, DESC>>].status = "success"
             /\ tasks[<<r, DESC>>].retries = 2 )
           => LET EsResultado(x) == x.etapa = "descarga" /\ x.estado # "iniciado"
              IN  /\ SelectSeq(logs, EsResultado) =
                        <<Log("descarga", "error"), Log("descarga", "error"), Log("descarga", "completado")>>
                  /\ \A i \in DOMAIN logs :
                        logs[i].etapa # "descarga" => Cuenta(SubSeq(logs, 1, i), "descarga", "iniciado") >= 3

\* The download of the only run succeeded on its third attempt and the
\* audio extraction it released has run.
C11_Witness ==
    \E r \in Runs :
        /\ IsPipeline(tasks, r)
        /\ OnlyRun(r)
        /\ tasks[<<r, DESC>>].status = "success"
        /\ tasks[<<r, DESC>>].retries = 2
        /\ tasks[<<r, DESC>>].execs = 3
        /\ tasks[<<r, AUDIO>>].execs = 1

\* C12: a procesar request for a video with a URL whose previous run has
\* ended, in estado completado or error, is accepted and starts a new run.
C12_ResubmitAccepted ==
    [][\A h \in Runs :
          ( /\ video.estado \in {"completado", "error"}
            /\ url_original
            /\ \A r \in Runs : ~RunActive(r)
            /\ procesar_check(h, TRUE) )
          => tasks'[<<h, ORQ>>].status = "queued"]_vars

\* C13: every attempt of a stage that reaches its service writes an
\* iniciado row before the external operation, and then exactly one
\* outcome row of the same stage: completado when it succeeds, error when
\* it fails; also a segmentation that finds no segments.
C13_StartedThenOneOutcome ==
    [][\A t \in TaskIds :
          t[2] \in Etapas =>
            /\ (tasks[t].status = "queued" /\ tasks'[t].status = "started")
                  => logs' = Append(logs, Log(etapa(t[2]), "iniciado"))
            /\ (tasks[t].status \in {"started", "saving"} /\ tasks'[t].status = "success")
                  => logs' = Append(logs, Log(etapa(t[2]), "completado"))
            /\ (tasks[t].status \in {"started", "saving"} /\ tasks'[t].status \in {"queued", "failure"})
                  => logs' = Append(logs, Log(etapa(t[2]), "error"))]_vars

\* C15: a stage attempt that fails with an unexpected error is handled
\* like an adapter error: an error row is logged, the estado is error, and
\* the task fails for good only after its retries are used up.
C15_UnexpectedLikeAdapter ==
    \A t \in TaskIds :
        (t[2] \in Etapas /\ tasks[t].error = "unexpected") =>
            /\ Logged(etapa(t[2]), "error")
            /\ video.estado = "error"
            /\ tasks[t].retries = max_retries(t[2])

\* C16: a video whose estado is completado keeps it: no task and no
\* handler (reanalizar, resegmentar) writes another estado.
C16_CompletedStays ==
    [][video.estado = "completado" => video'.estado = "completado"]_vars

\* C17: the video has at most one Transcripcion and at most one
\* ResumenEjecutivo, also when two analyses overlap; the ResumenEjecutivo
\* changes only when an analysis stores it, and then the one row holds the
\* content of that analysis, so that after two reanalizar calls it holds
\* the content of the one that stored last.
C17_Upsert ==
    [][/\ Len(transcripcion) <= 1 /\ Len(transcripcion') <= 1
       /\ Len(resumen) <= 1 /\ Len(resumen') <= 1
       /\ \A t \in TaskIds :
             (t[2] = ANAL /\ tasks[t].status = "saving" /\ tasks'[t].status = "success") => resumen' = <<t[1]>>
       /\ resumen' # resumen =>
             \E t \in TaskIds : t[2] = ANAL /\ tasks[t].status = "saving" /\ tasks'[t].status = "success"]_vars

\* Two analyses overlapped: no adapter failed, yet one of them was retried
\* because its create was refused, and both have ended successfully with
\* one ResumenEjecutivo stored.
C17_Witness ==
    /\ failures = 0
    /\ \A r \in Runs : tasks[<<r, ANAL>>].status = "success"
    /\ \E r \in Runs : tasks[<<r, ANAL>>].retries = 1
    /\ Len(resumen) = 1

\* C18: an analysis that ends successfully appends its Segmento rows to
\* the stored ones: the rows stored before are still there, unchanged and
\* in front, and the count grows by the number of segments the analysis
\* produced.
C18_SegmentsAppended ==
    [][\A t \in TaskIds :
          (t[2] = ANAL /\ tasks[t].status = "saving" /\ tasks'[t].status = "success") =>
              /\ Len(segmentos') = Len(segmentos) + Len(tasks'[t].resultados)
              /\ SubSeq(segmentos', 1, Len(segmentos)) = segmentos]_vars

\* Two analyses ended successfully, the first produced m = 1 and the
\* second n = 2 segments, and the video has its first row and m + n more.
C18_Witness ==
    /\ \A h \in Runs : http[h].response = 202
    /\ tasks[<<1, ANAL>>].status = "success" /\ Len(tasks[<<1, ANAL>>].resultados) = 1
    /\ tasks[<<2, ANAL>>].status = "success" /\ Len(tasks[<<2, ANAL>>].resultados) = 2
    /\ Len(segmentos) = 4

\* C19: the Segmento rows one analysis creates have orden 1..n, are
\* ranked by descending relevancia, and their count n lies within
\* [ANALYSIS_MIN_SEGMENTS, ANALYSIS_MAX_SEGMENTS].
C19_RankedAndBounded ==
    [][\A t \in TaskIds :
          (t[2] = ANAL /\ tasks[t].status = "saving" /\ tasks'[t].status = "success") =>
              LET nuevos == SubSeq(segmentos', Len(segmentos) + 1, Len(segmentos'))
              IN  /\ \A i \in DOMAIN nuevos : nuevos[i].orden = i
                  /\ \A i, k \in DOMAIN nuevos : i < k => nuevos[i].relevancia_score >= nuevos[k].relevancia_score
                  /\ Len(nuevos) >= ANALYSIS_MIN_SEGMENTS
                  /\ Len(nuevos) <= ANALYSIS_MAX_SEGMENTS]_vars

\* C20: a segmentation over K stored segments of which j fail returns K - j
\* results, each with a clip and a thumbnail, writes j error rows of the
\* segmentacion stage, and ends successfully.
C20_PerSegmentFailures ==
    [][\A t \in TaskIds :
          (t[2] = SEG /\ tasks[t].status = "started" /\ tasks'[t].status # "started" /\ Succeeds(t, TRUE)
           /\ tasks'[t].status = "success") =>
              LET j == Len(tasks[t].filas) - Len(tasks'[t].resultados)
              IN  /\ Cuenta(logs', "segmentacion", "error") - Cuenta(logs, "segmentacion", "error") = j
                  /\ \A i \in DOMAIN tasks'[t].resultados : tasks'[t].resultados[i].thumbnail]_vars

\* ----------------------------------------------------------------- segmentation of four segments
\* The four non-overlapping segments of a one-hour video, [0, 300],
\* [300, 900], [900, 3000] and [3000, 3600], in units of 300 seconds.
Intervalos == <<(<<0, 1>>), (<<1, 3>>), (<<3, 10>>), (<<10, 12>>)>>

\* The orden of the four rows, in the order the rows were created.
OrdenesSembrados == {<<1, 2, 3, 4>>, <<4, 3, 2, 1>>, <<2, 4, 1, 3>>}

\* The four Segmento rows as they can be stored: each with one orden of
\* 1..4.
FilasSegmentacion ==
    { [k \in 1..4 |-> Segmento(<<SEMBRADO, k>>, p[k], Intervalos[k][1], Intervalos[k][2],
                               Intervalos[k][2] - Intervalos[k][1], 7)] : p \in OrdenesSembrados }

\* A video with an uploaded file and the four rows.
InitSegmentacion ==
    /\ \E filas \in FilasSegmentacion : Sembrado([SoloArchivo EXCEPT !.segmentos = filas])
    /\ SinTareas
    /\ SinOtros

\* resegmentar requests and the segmentar_video_task they send, with
\* ffmpeg available: a segment can still fail to be cut or to get its
\* thumbnail.
NextSegmentacion ==
    \/ \E h \in Runs : resegmentar(h)
    \/ \E t \in TaskIds : WorkerStart(t)
    \/ \E t \in TaskIds : WorkerFinish(t, TRUE)

SpecSegmentacion == InitSegmentacion /\ [][NextSegmentacion]_vars

\* The stored row a result entry is about.
FilaDe(x) == segmentos[CHOOSE i \in DOMAIN segmentos : segmentos[i].id = x.segmento]

\* C21: segmentation processes the stored segments in ascending orden and
\* names each clip and each thumbnail by (video id, orden) alone: the
\* results of a segmentation of the four segments with orden 1..4 come in
\* ascending orden, clip and thumbnail names are pairwise distinct, each
\* thumbnail is asked at inicio + duracion / 2, and two segmentations that
\* cut the same segments give the same names.
C21_NamedByOrder ==
    \A r \in Runs :
        LET res == tasks[<<r, SEG>>].resultados IN
        tasks[<<r, SEG>>].status = "success" =>
            /\ \A i, k \in DOMAIN res : i < k => FilaDe(res[i]).orden < FilaDe(res[k]).orden
            /\ \A i \in DOMAIN res :
                  /\ res[i].video_path = <<"segmento", VID, FilaDe(res[i]).orden, "mp4">>
                  /\ res[i].thumbnail => res[i].thumbnail_path = <<"thumb_seg", VID, FilaDe(res[i]).orden, "jpg">>
                  /\ res[i].ss_x2 = 2 * FilaDe(res[i]).timestamp_inicio_seg + FilaDe(res[i]).duracion_seg
            /\ \A i, k \in DOMAIN res :
                  i # k => /\ res[i].video_path # res[k].video_path
                           /\ (res[i].thumbnail /\ res[k].thumbnail) => res[i].thumbnail_path # res[k].thumbnail_path
            /\ \A r2 \in Runs :
                  LET res2 == tasks[<<r2, SEG>>].resultados IN
                  (tasks[<<r2, SEG>>].status = "success" /\ Len(res2) = 4 /\ Len(res) = 4) =>
                      \A i \in DOMAIN res : res[i].video_path = res2[i].video_path

\* Four rows stored with their orden descending were segmented twice, and
\* both times the four clips and the four thumbnails were made.
C21_Witness ==
    /\ \A k \in DOMAIN segmentos : segmentos[k].orden = 5 - k
    /\ \A r \in Runs :
          /\ tasks[<<r, SEG>>].status = "success"
          /\ Len(tasks[<<r, SEG>>].resultados) = 4
          /\ \A i \in 1..4 : tasks[<<r, SEG>>].resultados[i].thumbnail
    /\ Len(segmentos) = 4

\* C22: the LogProcesamiento rows of the video are append-only: every
\* step of the pipeline, of a task or of a handler, leaves the rows
\* written so far in place and unchanged and at most adds rows behind
\* them.  (Deleting the Video, which removes its rows with it, is not a
\* step of this specification.)
C22_AppendOnly ==
    [][Len(logs') >= Len(logs) /\ SubSeq(logs', 1, Len(logs)) = logs]_vars

\* A download failed twice and then succeeded: the log holds its two error
\* rows and, behind them, its completado row.
C22_Witness ==
    \E i, j, k \in DOMAIN logs :
        /\ i < j /\ j < k
        /\ logs[i] = Log("descarga", "error")
        /\ logs[j] = Log("descarga", "error")
        /\ logs[k] = Log("descarga", "completado")

\* TaskStatusView.get for the task_id procesar answered run r with, the id
\* of procesar_video_completo_task: the state of that task, whether it is
\* ready, whether it was successful (None until it is ready), and the
\* error it raised.
TaskStatusView(r) ==
    LET result == tasks[<<r, ORQ>>]
        status == CASE result.status = "success" -> "SUCCESS"
                    [] result.status = "failure" -> "FAILURE"
                    [] OTHER -> "PENDING"
        ready == status \in {"SUCCESS", "FAILURE"}
    IN  [status |-> status,
         ready |-> ready,
         successful |-> IF ~ready THEN "None" ELSE IF status = "SUCCESS" THEN "True" ELSE "False",
         error |-> IF status = "FAILURE" THEN result.error ELSE NONE]

\* C23: when the run procesar accepted has ended with a stage failed for
\* good, the status query for the task_id procesar returned reports the
\* run as failed, with its error, and never as succeeded.
C23_StatusReportsFailure ==
    \A r \in Runs :
        ( /\ http[r].response = 202
          /\ Settled(r)
          /\ \E s \in Tasks \ {ORQ} : tasks[<<r, s>>].status = "failure" )
        => /\ TaskStatusView(r).status = "FAILURE"
           /\ TaskStatusView(r).successful = "False"
           /\ TaskStatusView(r).error # NONE

\* C24: a manual trigger whose precondition fails is rejected with 400,
\* sends no task and changes no row: reanalizar for a video without a
\* Transcripcion, resegmentar for a video without Segmento rows or without
\* a stored file.
C24_TriggerRejected ==
    [][\A h \in Runs :
          /\ (reanalizar(h) /\ transcripcion = <<>>) =>
                /\ http'[h].response = 400
                /\ tasks' = tasks
                /\ UNCHANGED <<video, transcripcion, resumen, segmentos, logs, files>>
          /\ (resegmentar(h) /\ (segmentos = <<>> \/ video.ruta_video_completo = NONE)) =>
                /\ http'[h].response = 400
                /\ tasks' = tasks
                /\ UNCHANGED <<video, transcripcion, resumen, segmentos, logs, files>>]_vars

\* Two triggers were rejected: the video is pendiente and has a URL, so
\* neither request was a procesar, and it has no Transcripcion, no Segmento
\* and no file; no task was sent.
C24_Witness ==
    /\ \A h \in Runs : http[h].response = 400
    /\ video.estado = "pendiente" /\ url_original
    /\ transcripcion = <<>> /\ segmentos = <<>> /\ video.ruta_video_completo = NONE
    /\ \A t \in TaskIds : tasks[t].status = "none"

\* ----------------------------------------------------------------- temporary files
\* A file of TEMP_ROOT is old when its st_mtime lies before cutoff_time =
\* time.time() - lifetime_hours * 3600, that is when it is older than
\* TEMP_FILE_LIFETIME_HOURS.
EsViejo(e) == temp_root[e].kind = "file" /\ temp_root[e].edad > TEMP_FILE_LIFETIME_HOURS

\* FileCleaner.clean_old_files, as limpiar_archivos_temporales_task runs
\* it: iterdir() yields the entries in some order; each regular file is
\* stat'ed and, when old, unlinked and counted.  `visitados` are the
\* entries handled before a stat or unlink raises (all of them when none
\* does, `completo`); an exception leaves the loop, keeps what was
\* unlinked and answers deleted_count 0 with the error.
sweep(visitados, completo) ==
    LET presentes == {e \in Entradas : temp_root[e].kind # "none"}
        eliminados == {e \in visitados : EsViejo(e)}
    IN
    /\ limpieza.n < MaxBarridos
    /\ visitados \subseteq presentes
    /\ IF completo THEN visitados = presentes
       ELSE \E e \in presentes \ visitados : temp_root[e].kind = "file"
    /\ temp_root' = [e \in Entradas |-> IF e \in eliminados THEN Ausente ELSE temp_root[e]]
    /\ limpieza' = IF completo
                   THEN [n |-> limpieza.n + 1, deleted_count |-> Cardinality(eliminados), error |-> FALSE]
                   ELSE [n |-> limpieza.n + 1, deleted_count |-> 0, error |-> TRUE]
    /\ UNCHANGED <<videos, response>>

\* The sweep of a TEMP_ROOT that holds no file of the pipeline.
clean_old_files(visitados, completo) == sweep(visitados, completo) /\ UNCHANGED pipeline

\* An hour passes: every entry is an hour older.
pasa_una_hora ==
    /\ \A e \in Entradas : temp_root[e].edad < MaxEdad
    /\ temp_root' = [e \in Entradas |-> IF temp_root[e].kind = "none" THEN Ausente
                                        ELSE [temp_root[e] EXCEPT !.edad = @ + 1]]
    /\ UNCHANGED <<pipeline, limpieza, videos, response>>

\* VideoDownloader.download writes a new file into TEMP_ROOT.
descarga_temporal(e) ==
    /\ temp_root[e].kind = "none"
    /\ temp_root' = [temp_root EXCEPT ![e] = Archivo(0)]
    /\ UNCHANGED <<pipeline, limpieza, videos, response>>

\* TEMP_ROOT holds files and directories of any age.
InitLimpieza ==
    /\ Sembrado(SoloArchivo)
    /\ SinTareas
    /\ temp_root \in [Entradas -> {Ausente} \cup {Archivo(edad) : edad \in 0..MaxEdad}
                                            \cup {Directorio(edad) : edad \in 0..MaxEdad}]
    /\ limpieza = NoLimpieza
    /\ videos = [v \in VideoIds |-> NoFila]
    /\ response = NoRespuesta

NextLimpieza ==
    \/ \E visitados \in SUBSET Entradas, completo \in BOOLEAN : clean_old_files(visitados, completo)
    \/ pasa_una_hora
    \/ \E e \in Entradas : descarga_temporal(e)

SpecLimpieza == InitLimpieza /\ [][NextLimpieza]_vars

\* C25: one sweep removes exactly the regular files directly in TEMP_ROOT
\* that are older than TEMP_FILE_LIFETIME_HOURS, leaves every other entry
\* as it is, and reports deleted_count equal to the number of files it
\* removed.
C25_SweepExact ==
    [][limpieza'.n # limpieza.n =>
          /\ \A e \in Entradas :
                temp_root'[e] = IF temp_root[e].kind = "file" /\ temp_root[e].edad > TEMP_FILE_LIFETIME_HOURS
                                THEN Ausente ELSE temp_root[e]
          /\ limpieza'.deleted_count = Cardinality({e \in Entradas : temp_root'[e] # temp_root[e]})]_vars

\* ----------------------------------------------------------------- the Video and Segmento API
\* IsDocenteOrAdmin.has_permission, for an authenticated user.
IsDocenteOrAdmin(u) == rol(u) \in {"docente", "admin"}

\* IsOwnerOrAdmin.has_object_permission for a row with a usuario.
IsOwnerOrAdmin(u, obj) == rol(u) = "admin" \/ obj.usuario = u

\* A queryset of every Video row, whoever asks.
get_queryset_todos(u) == {v \in VideoIds : videos[v].existe}

\* VideoViewSet.get_queryset: an admin sees every row, anyone else the rows
\* whose usuario they are.
get_queryset(u) ==
    IF rol(u) = "admin"
    THEN {v \in VideoIds : videos[v].existe}
    ELSE {v \in VideoIds : videos[v].existe /\ videos[v].usuario = u}

\* GenericAPIView.get_object for update, partial_update and destroy, whose
\* permissions are IsAuthenticated and IsOwnerOrAdmin: 404 for a key that is
\* not in the queryset, 403 for a row the object permission refuses, else
\* the row (200).
get_object(u, v) ==
    IF v \notin get_queryset(u) THEN 404
    ELSE IF ~IsOwnerOrAdmin(u, videos[v]) THEN 403
    ELSE 200

\* GET /videos/
VideoViewSet_list(u) ==
    /\ response' = IF IsDocenteOrAdmin(u) THEN [status |-> 200, results |-> get_queryset(u)] ELSE Respuesta(403)
    /\ UNCHANGED <<pipeline, temp_root, limpieza, videos>>

\* POST /videos/: perform_create stores the row with usuario=request.user
\* under the next primary key.
VideoViewSet_create(u, titulo) ==
    LET v == 1 + Cardinality({w \in VideoIds : videos[w] # NoFila}) IN
    /\ v \in VideoIds
    /\ IF IsDocenteOrAdmin(u)
       THEN /\ videos' = [videos EXCEPT ![v] = [existe |-> TRUE, usuario |-> u, titulo |-> titulo]]
            /\ response' = Respuesta(201)
       ELSE /\ response' = Respuesta(403)
            /\ UNCHANGED videos
    /\ UNCHANGED <<pipeline, temp_root, limpieza>>

\* PATCH /videos/{v}/
VideoViewSet_partial_update(u, v, titulo) ==
    LET obj == get_object(u, v) IN
    /\ response' = Respuesta(obj)
    /\ videos' = IF obj = 200 THEN [videos EXCEPT ![v].titulo = titulo] ELSE videos
    /\ UNCHANGED <<pipeline, temp_root, limpieza>>

\* DELETE /videos/{v}/
VideoViewSet_destroy(u, v) ==
    LET obj == get_object(u, v) IN
    /\ response' = Respuesta(IF obj = 200 THEN 204 ELSE obj)
    /\ videos' = IF obj = 200 THEN [videos EXCEPT ![v].existe = FALSE] ELSE videos
    /\ UNCHANGED <<pipeline, temp_root, limpieza>>

\* A validate that only computes the duration.
validate_sin_comparar(attrs) ==
    [error |-> FALSE,
     attrs |-> [timestamp_inicio_seg |-> attrs.timestamp_inicio_seg, timestamp_fin_seg |-> attrs.timestamp_fin_seg,
                duracion_seg |-> attrs.timestamp_fin_seg - attrs.timestamp_inicio_seg]]

\* SegmentoDetailSerializer.validate for a request that carries both
\* timestamps: ValidationError when fin <= inicio, else the attributes with
\* duracion_seg = fin - inicio.
validate(attrs) ==
    IF attrs.timestamp_fin_seg <= attrs.timestamp_inicio_seg
    THEN [error |-> TRUE,
          attrs |-> [timestamp_inicio_seg |-> attrs.timestamp_inicio_seg, timestamp_fin_seg |-> attrs.timestamp_fin_seg,
                     duracion_seg |-> 0]]
    ELSE [error |-> FALSE,
          attrs |-> [timestamp_inicio_seg |-> attrs.timestamp_inicio_seg, timestamp_fin_seg |-> attrs.timestamp_fin_seg,
                     duracion_seg |-> attrs.timestamp_fin_seg - attrs.timestamp_inicio_seg]]

\* POST /segmentos/ for the video, with both timestamps: 403 for a user who
\* is neither docente nor admin, 400 when validate raises, else the row is
\* stored with the validated attributes (201).
SegmentoViewSet_create(u, inicio, fin) ==
    LET validated == validate([timestamp_inicio_seg |-> inicio, timestamp_fin_seg |-> fin])
        data == validated.attrs
    IN
    /\ Len(segmentos) < MaxFilas
    /\ IF ~IsDocenteOrAdmin(u)
       THEN /\ response' = Respuesta(403)
            /\ UNCHANGED segmentos
       ELSE IF validated.error
       THEN /\ response' = Respuesta(400)
            /\ UNCHANGED segmentos
       ELSE /\ response' = Respuesta(201)
            /\ segmentos' = Append(segmentos,
                                   Segmento(<<SEMBRADO, Len(segmentos) + 1>>, Len(segmentos) + 1,
                                            data.timestamp_inicio_seg, data.timestamp_fin_seg, data.duracion_seg, 7))
    /\ UNCHANGED <<video, url_original, transcripcion, resumen, logs, files, tasks, http, failures>>
    /\ UNCHANGED <<temp_root, limpieza, videos>>

\* One video without segments; no Video row behind the API yet.
InitApi ==
    /\ Sembrado(SoloArchivo)
    /\ SinTareas
    /\ SinOtros

NextApi ==
    \/ \E u \in Usuarios : VideoViewSet_list(u)
    \/ \E u \in Usuarios, titulo \in Titulos : VideoViewSet_create(u, titulo)
    \/ \E u \in Usuarios, v \in VideoIds, titulo \in Titulos : VideoViewSet_partial_update(u, v, titulo)
    \/ \E u \in Usuarios, v \in VideoIds : VideoViewSet_destroy(u, v)
    \/ \E u \in Usuarios, inicio \in Tiempos, fin \in Tiempos : SegmentoViewSet_create(u, inicio, fin)

SpecApi == InitApi /\ [][NextApi]_vars

\* C26: a user who is not admin never lists, updates or deletes a video of
\* another user: the video is not in the results of the user's list, and
\* an update or a delete of it is answered 404 and leaves the Video rows
\* as they are.
C26_OwnerOnly ==
    [][\A u \in Usuarios, v \in VideoIds :
          (rol(u) # "admin" /\ videos[v].existe /\ videos[v].usuario # u) =>
              /\ VideoViewSet_list(u) => v \notin response'.results
              /\ (\E titulo \in Titulos : VideoViewSet_partial_update(u, v, titulo)) =>
                    (response'.status = 404 /\ videos' = videos)
              /\ VideoViewSet_destroy(u, v) => (response'.status = 404 /\ videos' = videos)]_vars

\* Both Video rows exist, one of each docente, with the titulo they were
\* created with, and the last request was answered 404: it was an update or
\* a delete of the other docente's video.
C26_Witness ==
    /\ videos[1] = [existe |-> TRUE, usuario |-> "docente1", titulo |-> "titulo"]
    /\ videos[2] = [existe |-> TRUE, usuario |-> "docente2", titulo |-> "titulo"]
    /\ response.status = 404

\* C27: creating a segment through the API with fin <= inicio is answered
\* 400 and stores no Segmento; a request with inicio < fin is answered 201
\* and stores one Segmento with these timestamps and duracion_seg = fin -
\* inicio.
C27_SegmentoTimestamps ==
    [][\A u \in Usuarios, inicio \in Tiempos, fin \in Tiempos :
          (IsDocenteOrAdmin(u) /\ SegmentoViewSet_create(u, inicio, fin)) =>
              IF fin <= inicio
              THEN response'.status = 400 /\ segmentos' = segmentos
              ELSE /\ response'.status = 201
                   /\ Len(segmentos') = Len(segmentos) + 1
                   /\ SubSeq(segmentos', 1, Len(segmentos)) = segmentos
                   /\ segmentos'[Len(segmentos')].timestamp_inicio_seg = inicio
                   /\ segmentos'[Len(segmentos')].timestamp_fin_seg = fin
                   /\ segmentos'[Len(segmentos')].duracion_seg = fin - inicio]_vars

\* A segment [0, 2] was stored with duracion_seg 2, and the request after
\* it was refused.
C27_Witness ==
    /\ Len(segmentos) = 1
    /\ segmentos[1].timestamp_inicio_seg = 0 /\ segmentos[1].timestamp_fin_seg = 2 /\ segmentos[1].duracion_seg = 2
    /\ response.status = 400

\* The fields of a Segmento row that analysis wrote.
Identificado(s) ==
    [id |-> s.id, orden |-> s.orden, timestamp_inicio_seg |-> s.timestamp_inicio_seg,
     timestamp_fin_seg |-> s.timestamp_fin_seg, duracion_seg |-> s.duracion_seg,
     relevancia_score |-> s.relevancia_score]

\* C30: analysis is the only stage that creates Segmento rows: a step that
\* leaves more rows than it found is the saving step of analizar_video_task,
\* and the step that ends an execution of segmentar_video_task leaves the
\* number of rows and the orden, timestamps, duracion and relevancia of
\* each row as they were, and changes the clip and the thumbnail only of
\* rows it reports as processed.
C30_OnlyAnalysisCreates ==
    [][/\ Len(segmentos') > Len(segmentos) => \E t \in TaskIds : t[2] = ANAL /\ tasks[t].status = "saving"
                                                                /\ tasks'[t].status = "success"
       /\ \A t \in TaskIds :
             (t[2] = SEG /\ tasks[t].status = "started" /\ tasks'[t].status # "started") =>
                 /\ Len(segmentos') = Len(segmentos)
                 /\ \A i \in DOMAIN segmentos :
                       /\ Identificado(segmentos'[i]) = Identificado(segmentos[i])
                       /\ segmentos'[i] # segmentos[i] =>
                             \E k \in DOMAIN tasks'[t].resultados :
                                 tasks'[t].resultados[k].segmento = segmentos[i].id]_vars

\* C31: a procesar that is answered 400 (the video is not 'pendiente', or
\* it has no URL) or 500 (delay raised) leaves the Video row and every
\* other row as it found them and sends no task.
C31_RejectedSubmit ==
    [][\A h \in Runs :
          ((\E ok \in BOOLEAN : procesar_check(h, ok)) /\ http'[h].response \in {400, 500}) =>
              /\ video' = video
              /\ <<url_original, transcripcion, resumen, segmentos, logs, files>>' =
                 <<url_original, transcripcion, resumen, segmentos, logs, files>>
              /\ tasks' = tasks]_vars

\* The procesar of a 'pendiente' video with a URL was answered 500: the
\* video is still 'pendiente' and no task was sent.
C31_Witness ==
    /\ http[1] = Answered(500)
    /\ url_original
    /\ video.estado = "pendiente"
    /\ \A t \in TaskIds : tasks[t].status = "none"

\* C32: when identifying the segments raises, the analysis task does not
\* succeed: it ends in error and is retried, and no Segmento and no
\* ResumenEjecutivo is stored by that attempt.
C32_ExtractionFailureFails ==
    [][\A t \in TaskIds :
          (t[2] = ANAL /\ tasks[t].status = "saving" /\ ~IntegrityError(resumen, tasks[t].hasattr)
             /\ analizar_video_task_save(t, TRUE)) =>
              /\ tasks'[t].status # "success"
              /\ video'.estado = "error"]_vars

\* ----------------------------------------------------------------- runs that are left alone
\* What the server and the workers do on their own, once a request was
\* received: the handler of procesar finishes, Celery delivers every task
\* it was sent, and every execution and every retry delay ends.
Trabajo ==
    \/ \E h \in Runs : procesar_save(h)
    \/ \E r \in Runs, ok \in BOOLEAN : procesar_video_completo_task(r, ok)
    \/ \E t \in TaskIds : WorkerStart(t)
    \/ \E t \in TaskIds, ok \in BOOLEAN : WorkerFinish(t, ok)
    \/ \E t \in TaskIds : WorkerSave(t)

SpecTermina == Init /\ [][Next]_vars /\ WF_vars(Trabajo)

\* C33: every run settles: once a run was submitted, the video is
\* eventually 'completado' or 'error'.
C33_EventuallySettles ==
    \A r \in Runs : [](IsPipeline(tasks, r) => <>(video.estado \in {"completado", "error"}))

\* C34: the save procesar makes after delay returned replaces nothing a
\* worker wrote: an estado written by a task ('descargando', 'error') and
\* the titulo, duracion, formato and tamano the download recorded stay.
C34_SubmitSaveKeepsRun ==
    [][\A h \in Runs :
          procesar_save(h) =>
              /\ video.info => video'.info
              /\ video.estado \in {"descargando", "error"} => video'.estado = video.estado]_vars

\* ----------------------------------------------------------------- validation of the segments
\* Answers of one segment with any timestamps from before 0 to after the
\* end of the video and any relevancia from below 1 to above 10.
Candidatos ==
    {<<>>} \cup
    { <<[valido |-> valido, relevancia |-> relevancia, timestamp_inicio |-> inicio, timestamp_fin |-> fin]>> :
         valido \in BOOLEAN, relevancia \in {0, 7, 11},
         inicio \in (0 - 1)..(DuracionVideo + 1), fin \in 0..(DuracionVideo + 2) }

\* A video with an uploaded file and a Transcripcion, its duration known
\* or not.
InitValidacion ==
    /\ \E conocida \in BOOLEAN :
          /\ video = [estado |-> "pendiente", info |-> conocida, miniatura_url |-> FALSE,
                      ruta_video_completo |-> UPLOAD_PATH, fecha_procesamiento |-> FALSE]
    /\ url_original = FALSE
    /\ files = {UPLOAD_PATH}
    /\ transcripcion = <<SEMBRADO>>
    /\ resumen = <<>>
    /\ segmentos = <<>>
    /\ logs = <<>>
    /\ SinTareas
    /\ SinOtros

NextValidacion ==
    \/ \E h \in Runs : reanalizar(h)
    \/ \E t \in TaskIds : WorkerStart(t)
    \/ \E t \in TaskIds : WorkerFinish(t, TRUE)
    \/ \E t \in TaskIds : analizar_video_task_save_de(t, FALSE, Candidatos)

SpecValidacion == InitValidacion /\ [][NextValidacion]_vars

\* C35: every Segmento analysis created has 0 <= inicio < fin, duracion =
\* fin - inicio > 0, fin within the duration of the video when it is known,
\* and 1 <= relevancia <= 10.
C35_ValidSegments ==
    \A i \in DOMAIN segmentos :
        LET s == segmentos[i] IN
        /\ 0 <= s.timestamp_inicio_seg
        /\ s.timestamp_inicio_seg < s.timestamp_fin_seg
        /\ s.duracion_seg = s.timestamp_fin_seg - s.timestamp_inicio_seg
        /\ s.duracion_seg > 0
        /\ video.info => s.timestamp_fin_seg <= DuracionVideo
        /\ 1 <= s.relevancia_score /\ s.relevancia_score <= 10

\* C36: no two Segmento rows of the video that analysis created have the
\* same orden, so no two of them get the same clip and thumbnail names.
C36_UniqueOrden ==
    \A i, j \in DOMAIN segmentos :
        (i # j /\ segmentos[i].id[1] \in Runs /\ segmentos[j].id[1] \in Runs) =>
            /\ segmentos[i].orden # segmentos[j].orden
            /\ cut_segment(VID, segmentos[i]) # cut_segment(VID, segmentos[j])

\* The Segmento rows run r's analysis created.
Creados(rows, r) == {i \in DOMAIN rows : rows[i].id[1] = r}

\* C37: in the attempts of one analizar_video_task Segmento rows are
\* created by one attempt at most: an attempt that ends in a retry leaves
\* the Segmento rows as they are and the task has created none so far, a
\* step of the task that changes the Segmento rows is the one it succeeds
\* with, and a task that succeeded does nothing more.
C37_RetriesCreateNoSegments ==
    [][\A r \in Runs :
          LET t == <<r, ANAL>> IN
          /\ tasks'[t].retries > tasks[t].retries => (segmentos' = segmentos /\ Creados(segmentos, r) = {})
          /\ tasks'[t] # tasks[t] /\ segmentos' # segmentos =>
                (tasks[t].status = "saving" /\ tasks'[t].status = "success")
          /\ tasks[t].status = "success" => tasks'[t] = tasks[t]]_vars

\* An analysis that failed once and was retried has succeeded and its
\* rows are the ones of its last attempt.
C37_Witness ==
    \E r \in Runs :
        /\ tasks[<<r, ANAL>>].retries > 0
        /\ tasks[<<r, ANAL>>].status = "success"
        /\ Creados(segmentos, r) # {}

\* ----------------------------------------------------------------- a run beside the sweep
\* The entry of TEMP_ROOT the download of the video writes:
\* video_{video.id}_{id}.{ext}.
DESCARGA == "a"

\* A task ends as in task_run; the file a download wrote is a new file of
\* TEMP_ROOT.
WorkerFinishEnTemp(t, ok) ==
    /\ task_run(t, ok)
    /\ temp_root' = IF TEMP_PATH \in files' \ files THEN [temp_root EXCEPT ![DESCARGA] = Archivo(0)] ELSE temp_root
    /\ UNCHANGED <<limpieza, videos, response>>

\* limpiar_archivos_temporales_task: the sweep of TEMP_ROOT; the download
\* it unlinks is gone for the pipeline too.
limpiar_archivos_temporales_task(visitados, completo) ==
    /\ sweep(visitados, completo)
    /\ files' = IF temp_root'[DESCARGA] = Ausente THEN files \ {TEMP_PATH} ELSE files
    /\ UNCHANGED <<video, url_original, transcripcion, resumen, segmentos, logs, tasks, http, failures>>

\* A 'pendiente' video with a URL and an empty TEMP_ROOT.
InitBarrido ==
    /\ Sembrado([estado |-> "pendiente", url |-> TRUE, ruta |-> NONE, transcripcion |-> <<>>, resumen |-> <<>>,
                 segmentos |-> <<>>, logs |-> <<>>])
    /\ SinTareas
    /\ SinOtros

\* One procesar, the workers, the clock and the sweep.
NextBarrido ==
    \/ \E ok \in BOOLEAN : procesar_check(1, ok)
    \/ procesar_save(1)
    \/ \E ok \in BOOLEAN : procesar_video_completo_task(1, ok)
    \/ \E t \in TaskIds : WorkerStart(t)
    \/ \E t \in TaskIds, ok \in BOOLEAN : WorkerFinishEnTemp(t, ok)
    \/ pasa_una_hora
    \/ \E visitados \in SUBSET Entradas, completo \in BOOLEAN : limpiar_archivos_temporales_task(visitados, completo)

SpecBarrido == InitBarrido /\ [][NextBarrido]_vars

\* C38: the sweep never removes the download of a run that is still
\* active: while a run whose download succeeded has a task outstanding and
\* has not moved the file to media, the file exists, and it exists whenever
\* segmentar_video_task or mover_video_a_media_task of the run starts.
C38_SweepSparesActiveRun ==
    [][\A r \in Runs :
          /\ ( /\ IsPipeline(tasks', r) /\ RunActive(r)'
               /\ tasks'[<<r, DESC>>].status = "success"
               /\ tasks'[<<r, MOVER>>].status # "success" ) => TEMP_PATH \in files'
          /\ \A s \in {SEG, MOVER} :
                (IsPipeline(tasks, r) /\ tasks[<<r, s>>].status = "queued" /\ tasks'[<<r, s>>].status = "started")
                    => TEMP_PATH \in files]_vars

====
